---- MODULE Spec2Model ----
(***************************************************************************)
(* Model of services/v1/video/concatenate.py: one run of                   *)
(* process_video_concatenate, from the downloads to the returned path or   *)
(* the re-raised exception, with the filter graphs the transition builders *)
(* describe.                                                               *)
(*                                                                         *)
(* Times are whole seconds.  The fade builder halves the transition        *)
(* duration, so the fade windows of a build step are kept in half seconds  *)
(* (fields ending in 2).  Stream durations follow the documented semantics *)
(* of the filters the code names: trim cuts to a window, fade/afade keep   *)
(* the length, overlay lasts as long as its longest input, amix with       *)
(* duration='shortest' as long as its shortest one, concat adds up its     *)
(* segments.  The external engine and the file system are nondeterministic.*)
(***************************************************************************)
EXTENDS Integers, Sequences, FiniteSets, TLC

\* ---------------------------------------------------------------- bounds
MaxClips == 4
MaxTransitions == 2
MaxClipDur == 1
MaxTransDur == 1
MaxPairDur == 3

\* durations of the clips and of the transitions of a whole job
ClipDurations == 1..MaxClipDur
TransitionDurations == 0..MaxTransDur

\* durations of the two clips and of the transition of a single build step
PairClipDurations == 1..MaxPairDur
PairTransitionDurations == 0..MaxPairDur

\* the four recognised kinds and the fall-through of _apply_transition
RecognisedTypes == {"crossfade", "fade", "wipe", "slide"}
TransitionTypes == RecognisedTypes \cup {"none"}

TransitionSpecs == [type : TransitionTypes, duration : TransitionDurations]
TransitionLists == UNION {[1..t -> TransitionSpecs] : t \in 0..MaxTransitions}

Min(a, b) == IF a <= b THEN a ELSE b
Max(a, b) == IF a >= b THEN a ELSE b

VARIABLES
    media_urls,         \* the media items of the request, 1..N
    transitions,        \* the transitions argument as a list
    transitions_is_none,\* the transitions argument was None (absent)
    input_files,        \* the downloaded files, in order
    pc,                 \* position in process_video_concatenate
    path,               \* which concatenation function was entered
    result,             \* result / output_streams of the fold
    i,                  \* loop variable of the fold
    calls,              \* the calls of _apply_transition made so far
    probes,             \* number of ffmpeg.probe calls made so far
    engine,             \* the ffmpeg run: not_run, ok, failed
    concat_list,        \* number of lines written to the concat list file
    output_exists,      \* the output file exists at output_path
    remove_attempted,   \* input files os.remove was called on
    error               \* the exception in flight or re-raised

vars == <<media_urls, transitions, transitions_is_none, input_files, pc, path,
          result, i, calls, probes, engine, concat_list, output_exists,
          remove_attempted, error>>

\* ------------------------------------------------------------- streams
\* form: "input" (ffmpeg.input), "stream" (one filter output),
\* "dict" ({'video':..., 'audio':...}); clips: the clips joined, in order.
NoStream == [form |-> "absent", vdur |-> 0, adur |-> 0, clips |-> <<>>]

InputStream(f) ==
    [form |-> "input", vdur |-> f.duration, adur |-> f.duration, clips |-> <<f.idx>>]

\* inputs = [ffmpeg.input(file) for file in input_files]
inputs == [k \in 1..Len(input_files) |-> InputStream(input_files[k])]

\* trim/atrim with start_time and duration on a stream of length d
Trim(d, start, duration) == Max(0, Min(d - start, duration))

\* trim/atrim with start_time only
TrimFrom(d, start) == Max(0, d - start)

\* overlay of a main and a second input, default eof_action
Overlay(main, second) == Max(main, second)

\* amix of two inputs with duration='shortest'
AMixShortest(a, b) == Min(a, b)

\* concat of two one-stream segments
Concat2(a, b) == a + b

\* _get_video_duration: the probed duration of an input, 0.0 for anything else
GetVideoDuration(s) == IF s.form = "input" THEN s.vdur ELSE 0

\* ffmpeg.probe is called only for a stream that carries a filename
ProbesOf(s) == IF s.form = "input" THEN 1 ELSE 0

\* what one build step yields: the exception it raises (if any), the stream
\* pair it returns, the probes it made and the fade windows it set up
Built(raises, out, nprobes, v1d, os2, ol2, is2, il2, ov) ==
    [raises |-> raises, out |-> out, probes |-> nprobes, v1_duration |-> v1d,
     fade_out_start2 |-> os2, fade_out_len2 |-> ol2,
     fade_in_start2 |-> is2, fade_in_len2 |-> il2, overlays |-> ov]

Raises(kind, nprobes) == Built(kind, NoStream, nprobes, 0, 0, 0, 0, 0, 0)

CrossfadeTransition(video1, video2, duration, probe_ok) ==
    LET v1_duration == GetVideoDuration(video1)
        offset      == v1_duration - duration
        v1_faded    == Trim(video1.vdur, 0, v1_duration)
        a1_faded    == Trim(video1.adur, 0, v1_duration)
        v2_faded    == Trim(video2.vdur, 0, duration)
        a2_faded    == Trim(video2.adur, 0, duration)
        v2_remaining == TrimFrom(video2.vdur, duration)
        a2_remaining == TrimFrom(video2.adur, duration)
        v_overlay   == Overlay(v1_faded, v2_faded)
        a_mix       == AMixShortest(a1_faded, a2_faded)
        v_final     == Concat2(v_overlay, v2_remaining)
        a_final     == Concat2(a_mix, a2_remaining)
    IN  IF video1.form = "input" /\ ~probe_ok THEN Raises("ProbeError", 1)
        ELSE IF video1.form = "dict" THEN Raises("AttributeError", 0)
        ELSE Built("", [form |-> "dict", vdur |-> v_final, adur |-> a_final,
                        clips |-> video1.clips \o video2.clips],
                   ProbesOf(video1), v1_duration,
                   2 * offset, 2 * duration, 0, 2 * duration, 1)

\* a fade that overlaps the two clips by the transition, as the crossfade does
FadeTransitionOverlapping(video1, video2, duration, probe_ok) ==
    LET v1_duration == GetVideoDuration(video1)
        v_out == Concat2(video1.vdur, TrimFrom(video2.vdur, duration))
        a_out == Concat2(video1.adur, TrimFrom(video2.adur, duration))
    IN  IF video1.form = "input" /\ ~probe_ok THEN Raises("ProbeError", 1)
        ELSE IF video1.form = "dict" THEN Raises("AttributeError", 0)
        ELSE Built("", [form |-> "dict", vdur |-> v_out, adur |-> a_out,
                        clips |-> video1.clips \o video2.clips],
                   ProbesOf(video1), v1_duration,
                   2 * v1_duration - duration, duration, 0, duration, 1)

FadeTransition(video1, video2, duration, probe_ok) ==
    LET v1_duration == GetVideoDuration(video1)
        v_out == Concat2(video1.vdur, video2.vdur)
        a_out == Concat2(video1.adur, video2.adur)
    IN  IF video1.form = "input" /\ ~probe_ok THEN Raises("ProbeError", 1)
        ELSE IF video1.form = "dict" THEN Raises("AttributeError", 0)
        ELSE Built("", [form |-> "dict", vdur |-> v_out, adur |-> a_out,
                        clips |-> video1.clips \o video2.clips],
                   ProbesOf(video1), v1_duration,
                   2 * v1_duration - duration, duration, 0, duration, 0)

\* ffmpeg.concat accepts streams only: a dict operand is a TypeError
WipeTransition(video1, video2, duration) ==
    IF video1.form = "dict" THEN Raises("TypeError", 0)
    ELSE Built("", [form |-> "dict",
                    vdur |-> Concat2(video1.vdur, video2.vdur),
                    adur |-> Concat2(video1.adur, video2.adur),
                    clips |-> video1.clips \o video2.clips],
               0, 0, 0, 0, 0, 0, 0)

SlideTransition(video1, video2, duration) ==
    IF video1.form = "dict" THEN Raises("TypeError", 0)
    ELSE Built("", [form |-> "dict",
                    vdur |-> Concat2(video1.vdur, video2.vdur),
                    adur |-> Concat2(video1.adur, video2.adur),
                    clips |-> video1.clips \o video2.clips],
               0, 0, 0, 0, 0, 0, 0)

\* ffmpeg.concat(video1, video2, v=1, a=1): two streams, v + a = 2, so one
\* segment whose video is video1 and whose audio is video2
HardConcat(video1, video2) ==
    IF video1.form = "dict" THEN Raises("TypeError", 0)
    ELSE Built("", [form |-> "stream", vdur |-> video1.vdur, adur |-> video2.adur,
                    clips |-> video1.clips \o video2.clips],
               0, 0, 0, 0, 0, 0, 0)

ApplyTransition(video1, video2, transition, probe_ok) ==
    LET transition_type == transition.type
        duration == transition.duration
    IN  CASE transition_type = "crossfade" ->
                CrossfadeTransition(video1, video2, duration, probe_ok)
          [] transition_type = "fade" ->
                FadeTransition(video1, video2, duration, probe_ok)
          [] transition_type = "wipe" -> WipeTransition(video1, video2, duration)
          [] transition_type = "slide" -> SlideTransition(video1, video2, duration)
          [] OTHER -> HardConcat(video1, video2)

\* ------------------------------------------------------------- the run
Init ==
    /\ \E n \in 0..MaxClips : media_urls = [k \in 1..n |-> k]
    /\ transitions_is_none \in BOOLEAN
    /\ transitions \in TransitionLists
    /\ transitions_is_none => transitions = <<>>
    /\ input_files = <<>>
    /\ pc = "download"
    /\ path = "none"
    /\ result = NoStream
    /\ i = 0
    /\ calls = <<>>
    /\ probes = 0
    /\ engine = "not_run"
    /\ concat_list = 0
    /\ output_exists = FALSE
    /\ remove_attempted = {}
    /\ error = ""

Raise(kind) == pc' = "except" /\ error' = kind

\* download_file returned: the file is appended to input_files
DownloadFile ==
    /\ pc = "download"
    /\ Len(input_files) < Len(media_urls)
    /\ \E d \in ClipDurations :
          input_files' = Append(input_files,
                                [idx |-> Len(input_files) + 1, duration |-> d])
    /\ UNCHANGED <<media_urls, transitions, transitions_is_none, pc, path, result,
                   i, calls, probes, engine, concat_list, output_exists,
                   remove_attempted, error>>

\* download_file raised
DownloadFails ==
    /\ pc = "download"
    /\ Len(input_files) < Len(media_urls)
    /\ Raise("FetchError")
    /\ UNCHANGED <<media_urls, transitions, transitions_is_none, input_files, path,
                   result, i, calls, probes, engine, concat_list, output_exists,
                   remove_attempted>>

\* a dispatch that tests only for None: if transitions is not None
UseTransitionsNotNone == ~transitions_is_none

\* if transitions and len(transitions) > 0
UseTransitions == ~transitions_is_none /\ Len(transitions) > 0

Dispatch ==
    /\ pc = "download"
    /\ Len(input_files) = Len(media_urls)
    /\ IF UseTransitions
         THEN pc' = "with_transitions" /\ path' = "transitions"
         ELSE pc' = "simple" /\ path' = "simple"
    /\ UNCHANGED <<media_urls, transitions, transitions_is_none, input_files, result,
                   i, calls, probes, engine, concat_list, output_exists,
                   remove_attempted, error>>

\* _concatenate_simple: write the list, run the engine in copy mode
ConcatenateSimple ==
    /\ pc = "simple"
    /\ concat_list' = Len(input_files)
    /\ \E ok \in BOOLEAN, exists \in BOOLEAN :
          /\ output_exists' = exists
          /\ IF ok THEN engine' = "ok" /\ pc' = "cleanup" /\ error' = error
                   ELSE engine' = "failed" /\ Raise("ExecutionError")
    /\ UNCHANGED <<media_urls, transitions, transitions_is_none, input_files, path,
                   result, i, calls, probes, remove_attempted>>

\* a guard that lets a single clip through: if len(input_files) < 1
TooFewInputsBelowOne == Len(input_files) < 1

\* if len(input_files) < 2
TooFewInputs == Len(input_files) < 2

\* _concatenate_with_transitions up to the branch on len(input_files)
EnterWithTransitions ==
    /\ pc = "with_transitions"
    /\ IF TooFewInputs
         THEN Raise("InsufficientInputs") /\ UNCHANGED <<result, i>>
         ELSE IF Len(input_files) = 2
                THEN pc' = "pair" /\ UNCHANGED <<result, i, error>>
                ELSE pc' = "fold" /\ result' = inputs[1] /\ i' = 1
                     /\ UNCHANGED error
    /\ UNCHANGED <<media_urls, transitions, transitions_is_none, input_files, path,
                   calls, probes, engine, concat_list, output_exists,
                   remove_attempted>>

\* an index that wraps to the first transition instead of clamping to the last
TransitionIndexWrapping(k, t) == IF k <= t THEN k ELSE 1

\* min(i - 1, len(transitions) - 1), as a 1-based index into transitions
TransitionIndex(k, t) == Min(k - 1, t - 1) + 1

\* the record kept of one call of _apply_transition
Call(video1, video2, idx, built) ==
    [first |-> video1, second |-> video2, index |-> idx,
     transition |-> transitions[idx], built |-> built]

\* len(input_files) == 2: one transition, transitions[0]
PairStep ==
    /\ pc = "pair"
    /\ \E probe_ok \in BOOLEAN :
          LET transition == transitions[1]
              built == ApplyTransition(inputs[1], inputs[2], transition, probe_ok)
          IN  /\ calls' = Append(calls, Call(inputs[1], inputs[2], 1, built))
              /\ probes' = probes + built.probes
              /\ IF built.raises = ""
                   THEN result' = built.out /\ pc' = "output" /\ error' = error
                   ELSE result' = result /\ Raise(built.raises)
    /\ UNCHANGED <<media_urls, transitions, transitions_is_none, input_files, path,
                   i, engine, concat_list, output_exists, remove_attempted>>

\* one iteration of: for i in range(1, len(inputs))
FoldStep ==
    /\ pc = "fold"
    /\ i < Len(input_files)
    /\ \E probe_ok \in BOOLEAN :
          LET transition_idx == TransitionIndex(i, Len(transitions))
              transition == transitions[transition_idx]
              built == ApplyTransition(result, inputs[i + 1], transition, probe_ok)
          IN  /\ calls' = Append(calls, Call(result, inputs[i + 1], transition_idx, built))
              /\ probes' = probes + built.probes
              /\ IF built.raises = ""
                   THEN result' = built.out /\ i' = i + 1 /\ UNCHANGED <<pc, error>>
                   ELSE Raise(built.raises) /\ UNCHANGED <<result, i>>
    /\ UNCHANGED <<media_urls, transitions, transitions_is_none, input_files, path,
                   engine, concat_list, output_exists, remove_attempted>>

\* the loop is over: output_streams = result
FoldEnd ==
    /\ pc = "fold"
    /\ i >= Len(input_files)
    /\ pc' = "output"
    /\ UNCHANGED <<media_urls, transitions, transitions_is_none, input_files, path,
                   result, i, calls, probes, engine, concat_list, output_exists,
                   remove_attempted, error>>

\* ffmpeg.output(...).run(overwrite_output=True) on the filter graph
RunFilterGraph ==
    /\ pc = "output"
    /\ \E ok \in BOOLEAN, exists \in BOOLEAN :
          /\ output_exists' = exists
          /\ IF ok THEN engine' = "ok" /\ pc' = "cleanup" /\ error' = error
                   ELSE engine' = "failed" /\ Raise("ExecutionError")
    /\ UNCHANGED <<media_urls, transitions, transitions_is_none, input_files, path,
                   result, i, calls, probes, concat_list, remove_attempted>>

\* one iteration of: for f in input_files: os.remove(f)
RemoveInput ==
    /\ pc = "cleanup"
    /\ Cardinality(remove_attempted) < Len(input_files)
    /\ remove_attempted' = remove_attempted \cup {Cardinality(remove_attempted) + 1}
    /\ \E removed \in BOOLEAN :
          IF removed THEN UNCHANGED <<pc, error>> ELSE Raise("OSError")
    /\ UNCHANGED <<media_urls, transitions, transitions_is_none, input_files, path,
                   result, i, calls, probes, engine, concat_list, output_exists>>

\* a return without the existence check
OutputMissingUnchecked == FALSE

\* if not os.path.exists(output_path)
OutputMissing == ~output_exists

\* the existence check and the return
CheckOutput ==
    /\ pc = "cleanup"
    /\ Cardinality(remove_attempted) = Len(input_files)
    /\ IF OutputMissing THEN Raise("FileNotFoundError")
                        ELSE pc' = "done" /\ error' = error
    /\ UNCHANGED <<media_urls, transitions, transitions_is_none, input_files, path,
                   result, i, calls, probes, engine, concat_list, output_exists,
                   remove_attempted>>

\* the files the handler calls os.remove on before re-raising: none
CleanedOnFailure == {}

\* except Exception as e: print(...); raise
ExceptHandler ==
    /\ pc = "except"
    /\ pc' = "failed"
    /\ remove_attempted' = remove_attempted \cup CleanedOnFailure
    /\ UNCHANGED <<media_urls, transitions, transitions_is_none, input_files, path,
                   result, i, calls, probes, engine, concat_list, output_exists,
                   error>>

Next ==
    \/ DownloadFile
    \/ DownloadFails
    \/ Dispatch
    \/ ConcatenateSimple
    \/ EnterWithTransitions
    \/ PairStep
    \/ FoldStep
    \/ FoldEnd
    \/ RunFilterGraph
    \/ RemoveInput
    \/ CheckOutput
    \/ ExceptHandler

Spec == Init /\ [][Next]_vars

\* ------------------------------------------- one build step on two clips
\* The state of a two-clip job at the call of _apply_transition, with the
\* clip and transition durations drawn from the wider pair domains.
InitPair ==
    /\ media_urls = <<1, 2>>
    /\ transitions_is_none = FALSE
    /\ \E ty \in TransitionTypes, d \in PairTransitionDurations :
          transitions = <<[type |-> ty, duration |-> d]>>
    /\ \E da \in PairClipDurations, db \in PairClipDurations :
          input_files = <<[idx |-> 1, duration |-> da], [idx |-> 2, duration |-> db]>>
    /\ pc = "pair"
    /\ path = "transitions"
    /\ result = NoStream
    /\ i = 0
    /\ calls = <<>>
    /\ probes = 0
    /\ engine = "not_run"
    /\ concat_list = 0
    /\ output_exists = FALSE
    /\ remove_attempted = {}
    /\ error = ""

NextPair == PairStep

SpecPair == InitPair /\ [][NextPair]_vars

\* ================================================================ claims
TransitionsRequested == ~transitions_is_none /\ transitions # <<>>
InTransitionsBody == pc \in {"pair", "fold", "output"}
Returned(c) == c.built.raises = ""

\* C1: with an empty or absent transitions argument the run takes the
\* concat-list path for every clip count, never the filter-graph path, and
\* makes no call of the pairwise builder and no duration probe.
C1_NoTransitionsTakesSimplePath ==
    (transitions_is_none \/ transitions = <<>>) =>
        /\ path # "transitions"
        /\ pc \notin {"with_transitions", "pair", "fold", "output"}
        /\ calls = <<>>
        /\ probes = 0
        /\ (engine # "not_run" => path = "simple" /\ concat_list = Len(input_files))

C1_Witness ==
    /\ ~transitions_is_none /\ transitions = <<>>
    /\ Len(input_files) = 1
    /\ path = "simple" /\ engine = "ok" /\ pc = "done"

\* C2: for N >= 2 clips and a non-empty transition list the pairwise builder
\* is called exactly N-1 times, left to right: call k takes the result of
\* call k-1 (clip 0 for the first) and clip k.
C2_ExactlyNMinusOneCalls ==
    ( /\ TransitionsRequested
      /\ Len(media_urls) >= 2
      /\ path = "transitions"
      /\ pc \in {"output", "cleanup", "done", "except", "failed"}
      /\ error # "ProbeError" )
    => /\ Len(calls) = Len(media_urls) - 1
       /\ \A k \in 1..Len(calls) :
            /\ calls[k].second = inputs[k + 1]
            /\ calls[k].first = IF k = 1 THEN inputs[1] ELSE calls[k - 1].built.out

\* C3: the join before clip i (i = 1..N-1) uses transitions[min(i-1, T-1)]:
\* the last transition is reused for the gaps beyond the list, and entries
\* beyond N-1 are never used; in the two-clip branch as in the loop.
C3_TransitionIndexClamped ==
    \A k \in 1..Len(calls) :
        LET t == Len(transitions)
            expected == IF k <= t THEN k ELSE t
        IN  /\ calls[k].second.clips = <<k + 1>>
            /\ calls[k].index = expected
            /\ calls[k].transition = transitions[expected]

C3_Witness ==
    /\ Len(input_files) = 4
    /\ Len(transitions) = 2
    /\ transitions[1] # transitions[2]
    /\ Len(calls) = 3
    /\ calls[3].transition = transitions[2]

\* C4: a crossfade of duration d between clips A and B with
\* 0 < d <= min(duration(A), duration(B)) returns a pair of total duration
\* duration(A) + duration(B) - d on the video and on the audio track.
C4_CrossfadeDurationLaw ==
    \A k \in 1..Len(calls) :
        LET c == calls[k]
            d == c.transition.duration
        IN  ( /\ c.transition.type = "crossfade"
              /\ Returned(c)
              /\ c.first.form = "input"
              /\ 0 < d /\ d <= Min(c.first.vdur, c.second.vdur) )
            => /\ c.built.out.vdur = c.first.vdur + c.second.vdur - d
               /\ c.built.out.adur = c.first.adur + c.second.adur - d

\* C5: a recognised transition with duration <= 0 makes _apply_transition
\* raise InvalidTransition, and the engine is never run for that job (a call
\* whose duration probe itself failed aside).
C5_NonPositiveDurationRejected ==
    \A k \in 1..Len(calls) :
        ( /\ calls[k].transition.type \in RecognisedTypes
          /\ calls[k].transition.duration <= 0
          /\ calls[k].built.raises # "ProbeError" )
        => /\ calls[k].built.raises = "InvalidTransition"
           /\ engine = "not_run"

\* C6: for N >= 3 clips every value a build step returns is accepted by the
\* next build step as its first operand, so the fold never fails on the
\* form of an intermediate result.
C6_FoldAcceptsEveryIntermediate ==
    (Len(media_urls) >= 3 /\ path = "transitions") =>
        \A k \in 1..Len(calls) :
            calls[k].built.raises \notin {"AttributeError", "TypeError"}

\* C7: no run ends failed with a downloaded input on which no removal was
\* attempted.
C7_CleanupAttemptedOnFailure ==
    pc = "failed" => \A k \in 1..Len(input_files) : k \in remove_attempted

\* C8: the output path is returned only after an engine run that completed
\* without error and with the output file present; after an engine failure
\* or with the file absent the run ends with an error.
C8_SuccessOnlyWithOutput ==
    /\ pc = "done" => engine = "ok" /\ output_exists /\ error = ""
    /\ (pc = "failed" /\ engine = "failed") => error = "ExecutionError"
    /\ (pc = "failed" /\ engine = "ok" /\ ~output_exists) =>
            error \in {"FileNotFoundError", "OSError"}

C8_Witness ==
    /\ pc = "done"
    /\ engine = "ok" /\ output_exists
    /\ path = "transitions" /\ Len(calls) = 2

\* C9: with transitions requested and fewer than 2 clips,
\* _concatenate_with_transitions raises InsufficientInputs before any probe,
\* build step or engine run, and no path is returned.
C9_InsufficientInputs ==
    (TransitionsRequested /\ Len(media_urls) < 2) =>
        /\ ~InTransitionsBody
        /\ pc \notin {"cleanup", "done"}
        /\ calls = <<>>
        /\ probes = 0
        /\ engine = "not_run"
        /\ (path = "transitions" /\ pc \in {"except", "failed"}) =>
                error = "InsufficientInputs"

C9_Witness ==
    /\ TransitionsRequested
    /\ Len(input_files) = 1
    /\ pc = "failed" /\ error = "InsufficientInputs"

\* C10: a fade of duration d between clips A and B returns a pair of total
\* duration duration(A) + duration(B) on both tracks: A fades out over its
\* last d/2 seconds, B fades in over its first d/2 seconds, and the two are
\* concatenated without overlap.
C10_FadeDurationLaw ==
    \A k \in 1..Len(calls) :
        LET c == calls[k]
            d == c.transition.duration
        IN  (c.transition.type = "fade" /\ Returned(c) /\ c.first.form = "input")
            => /\ c.built.out.vdur = c.first.vdur + c.second.vdur
               /\ c.built.out.adur = c.first.adur + c.second.adur
               /\ c.built.fade_out_len2 = d
               /\ c.built.fade_out_start2 + c.built.fade_out_len2 = 2 * c.first.vdur
               /\ c.built.fade_in_start2 = 0
               /\ c.built.fade_in_len2 = d
               /\ c.built.overlays = 0

C10_Witness ==
    /\ Len(calls) = 1
    /\ calls[1].transition = [type |-> "fade", duration |-> 2]
    /\ Returned(calls[1])
    /\ calls[1].first.vdur = 3 /\ calls[1].second.vdur = 2
    /\ calls[1].built.out.vdur = 5

====
